---- MODULE Spec2Model ----
(***************************************************************************)
(* Model of the ICRC2 token ledger of task1_backend (src/icrc2.rs).        *)
(*                                                                         *)
(* The canister keeps one thread-local Option<TokenICRC2>.  Every update   *)
(* call is one atomic step.  The variable token is that Option; call and   *)
(* result are the last update call received and the reply given to it;     *)
(* pre is the value of token right before that call was executed.          *)
(* overflow_checks is the build setting that decides what an overflowing   *)
(* u64 addition does; it is fixed when the canister is built.              *)
(***************************************************************************)
EXTENDS Integers, Sequences, FiniteSets, TLC

VARIABLES token, pre, call, result, overflow_checks

vars == <<token, pre, call, result, overflow_checks>>

---------------------------------------------------------------------------
(* Bounds of the model.                                                    *)

\* Largest value of the unsigned integers of the model: u64::MAX of the
\* source, scaled down to 16 bits so that sums stay within TLC's integers.
U64Max == 65535

\* Longest transaction history explored.
MaxHistory == 1

\* burn_cycles is explored from states whose counter is at most MaxBurnt.
MaxBurnt == 1

U64Modulus == U64Max + 1

U64 == 0 .. U64Max

\* The amounts passed to the calls: nothing, one unit and the largest value.
Amounts == {0, 1, U64Max}

\* The identities that place calls and hold balances.
Principals == {"alice", "bob", "carol", "dave"}

\* Arguments of init_token other than the supply.
Symbols == {"TOK"}

Names == {"Token"}

Decimals == {2}

---------------------------------------------------------------------------
(* Result values.                                                          *)

Ok == "Ok"

ErrInsufficientBalance == "Insufficient balance"

ErrNotOwner == "Only the owner can add minters"

ErrNotAuthorized == "Caller is not authorized to mint"

ErrNotInitialized == "Token not initialized"

\* Reply of an update method that returns nothing.
Unit == "()"

\* The call panicked on an arithmetic overflow (overflow checks compiled in):
\* the canister traps, the caller gets a reject and the state is rolled back.
Trap == "trap"

ReasonCyclesBurnt == "Cycles were burnt due to transfer fees or maintenance costs."

ReasonNoCyclesBurnt == "No cycles were burnt as no transfer fees applied."

ReasonMint == "Minting operation has no cycle burn cost."

---------------------------------------------------------------------------
(* u64 arithmetic.  An addition that overflows panics when overflow checks *)
(* are compiled in (overflow_checks) and wraps around when they are not.   *)

Overflows(a, b) == a + b > U64Max

WrappingAdd(a, b) == (a + b) % U64Modulus

---------------------------------------------------------------------------
(* HashMap helpers: a map is a function whose domain is the set of keys.   *)

EmptyMap == [k \in {} |-> 0]

\* map.get(&k).unwrap_or(&d)
GetOr(map, k, d) == IF k \in DOMAIN map THEN map[k] ELSE d

\* map.insert(k, v)
Insert(map, k, v) == [x \in (DOMAIN map) \cup {k} |-> IF x = k THEN v ELSE map[x]]

\* map.entry(k).or_insert(d)
OrInsert(map, k, d) == IF k \in DOMAIN map THEN map ELSE Insert(map, k, d)

---------------------------------------------------------------------------
(* struct TokenICRC2 and its methods.  A method that changes the ledger is *)
(* its outcome: the ledger it leaves and the value it returns.             *)

\* Option<TokenICRC2>: None is the empty sequence, Some(t) is <<t>>.
None == <<>>

Some(t) == <<t>>

IsSome(opt) == opt # None

Unwrap(opt) == opt[1]

TransactionRecord(from, to, amount, post_balance_from, post_balance_to, cycles_burnt, reason) ==
    [from |-> from, to |-> to, amount |-> amount,
     post_balance_from |-> post_balance_from, post_balance_to |-> post_balance_to,
     cycles_burnt |-> cycles_burnt, reason |-> reason]

\* Mutant: the creator of the ledger receives no balance.
TokenICRC2_new_without_balance(owner, total_supply, decimals, name, symbol) ==
    [balances |-> EmptyMap,
     allowances |-> EmptyMap,
     minters |-> {owner},
     owner |-> owner,
     total_supply |-> total_supply,
     decimals |-> decimals,
     name |-> name,
     symbol |-> symbol,
     burnt_cycles |-> 0,
     transaction_history |-> <<>>]

TokenICRC2_new(owner, total_supply, decimals, name, symbol) ==
    [balances |-> Insert(EmptyMap, owner, total_supply),
     allowances |-> EmptyMap,
     minters |-> {owner},
     owner |-> owner,
     total_supply |-> total_supply,
     decimals |-> decimals,
     name |-> name,
     symbol |-> symbol,
     burnt_cycles |-> 0,
     transaction_history |-> <<>>]

TokenICRC2_balance_of(t, user) == GetOr(t.balances, user, 0)

TokenICRC2_allowance(t, owner, spender) ==
    IF owner \in DOMAIN t.allowances
    THEN GetOr(t.allowances[owner], spender, 0)
    ELSE 0

Outcome(t, r) == [token |-> t, result |-> r]

\* Mutant: the record is built before the balances are updated.
TransferOutcomes_records_old_balances(t, from, to, amount) ==
    LET b0 == OrInsert(t.balances, from, 0)
        b1 == [b0 EXCEPT ![from] = @ - amount]
        b2 == OrInsert(b1, to, 0)
        b3 == [b2 EXCEPT ![to] = WrappingAdd(@, amount)]
        cycles_burnt == t.burnt_cycles
        reason == IF cycles_burnt > 0 THEN ReasonCyclesBurnt ELSE ReasonNoCyclesBurnt
        record == TransactionRecord(from, to, amount, GetOr(t.balances, from, 0),
                                    GetOr(t.balances, to, 0), cycles_burnt, reason)
    IN  IF overflow_checks /\ Overflows(b2[to], amount)
        THEN Outcome(t, Trap)
        ELSE Outcome([t EXCEPT !.balances = b3,
                               !.transaction_history = Append(@, record)], Ok)

\* The body of transfer after the balance check.
TransferOutcomes(t, from, to, amount) ==
    LET b0 == OrInsert(t.balances, from, 0)
        b1 == [b0 EXCEPT ![from] = @ - amount]
        b2 == OrInsert(b1, to, 0)
        b3 == [b2 EXCEPT ![to] = WrappingAdd(@, amount)]
        cycles_burnt == t.burnt_cycles
        reason == IF cycles_burnt > 0 THEN ReasonCyclesBurnt ELSE ReasonNoCyclesBurnt
        record == TransactionRecord(from, to, amount, GetOr(b3, from, 0),
                                    GetOr(b3, to, 0), cycles_burnt, reason)
    IN  IF overflow_checks /\ Overflows(b2[to], amount)
        THEN Outcome(t, Trap)
        ELSE Outcome([t EXCEPT !.balances = b3,
                               !.transaction_history = Append(@, record)], Ok)

\* Mutant: the balance is read through entry(from).or_insert(0), so that a
\* refused transfer leaves an entry behind.
TokenICRC2_transfer_inserts_entry(t, from, to, amount) ==
    IF GetOr(t.balances, from, 0) < amount
    THEN Outcome([t EXCEPT !.balances = OrInsert(@, from, 0)], ErrInsufficientBalance)
    ELSE TransferOutcomes(t, from, to, amount)

\* Mutant: the record is pushed before the balance check.
TokenICRC2_transfer_logs_refusal(t, from, to, amount) ==
    IF GetOr(t.balances, from, 0) < amount
    THEN Outcome([t EXCEPT !.transaction_history =
                      Append(@, TransactionRecord(from, to, amount, GetOr(t.balances, from, 0),
                                                  GetOr(t.balances, to, 0), t.burnt_cycles,
                                                  ReasonNoCyclesBurnt))],
                 ErrInsufficientBalance)
    ELSE TransferOutcomes(t, from, to, amount)

\* Mutant: a successful transfer uses up the allowance that the caller
\* granted to the destination.
TokenICRC2_transfer_spends_allowance(t, from, to, amount) ==
    IF GetOr(t.balances, from, 0) < amount
    THEN Outcome(t, ErrInsufficientBalance)
    ELSE LET o == TransferOutcomes(t, from, to, amount)
             granted == TokenICRC2_allowance(t, from, to)
             left == IF granted < amount THEN 0 ELSE granted - amount
         IN  IF o.result = Ok /\ granted > 0
             THEN Outcome([o.token EXCEPT !.allowances[from][to] = left], Ok)
             ELSE o

TokenICRC2_transfer(t, from, to, amount) ==
    IF GetOr(t.balances, from, 0) < amount
    THEN Outcome(t, ErrInsufficientBalance)
    ELSE TransferOutcomes(t, from, to, amount)

\* Mutant: the new amount is added to the allowance already granted.
TokenICRC2_approve_accumulates(t, owner, spender, amount) ==
    LET a0 == OrInsert(t.allowances, owner, EmptyMap)
        a1 == [a0 EXCEPT ![owner] =
                  Insert(@, spender, WrappingAdd(GetOr(@, spender, 0), amount))]
    IN  Outcome([t EXCEPT !.allowances = a1], Ok)

TokenICRC2_approve(t, owner, spender, amount) ==
    LET a0 == OrInsert(t.allowances, owner, EmptyMap)
        a1 == [a0 EXCEPT ![owner] = Insert(@, spender, amount)]
    IN  Outcome([t EXCEPT !.allowances = a1], Ok)

TokenICRC2_burn_cycles(t, cycles) ==
    IF overflow_checks /\ Overflows(t.burnt_cycles, cycles)
    THEN Outcome(t, Trap)
    ELSE Outcome([t EXCEPT !.burnt_cycles = WrappingAdd(@, cycles)], Unit)

\* Mutant: any minter may add minters.
TokenICRC2_add_minter_by_minter(t, caller, minter) ==
    IF caller \notin t.minters
    THEN Outcome(t, ErrNotOwner)
    ELSE Outcome([t EXCEPT !.minters = @ \cup {minter}], Ok)

\* Mutant: the new minter replaces the minter set.
TokenICRC2_add_minter_replaces(t, caller, minter) ==
    IF caller # t.owner
    THEN Outcome(t, ErrNotOwner)
    ELSE Outcome([t EXCEPT !.minters = {minter}], Ok)

TokenICRC2_add_minter(t, caller, minter) ==
    IF caller # t.owner
    THEN Outcome(t, ErrNotOwner)
    ELSE Outcome([t EXCEPT !.minters = @ \cup {minter}], Ok)

\* The body of mint after the authorization check.
MintOutcomes(t, caller, to, amount) ==
    LET b0 == OrInsert(t.balances, to, 0)
        b1 == [b0 EXCEPT ![to] = WrappingAdd(@, amount)]
        record == TransactionRecord(caller, to, amount, 0, GetOr(b1, to, 0), 0, ReasonMint)
    IN  IF overflow_checks /\ (Overflows(b0[to], amount) \/ Overflows(t.total_supply, amount))
        THEN Outcome(t, Trap)
        ELSE Outcome([t EXCEPT !.balances = b1,
                               !.total_supply = WrappingAdd(@, amount),
                               !.transaction_history = Append(@, record)], Ok)

\* Mutant: the authorization check looks up the recipient, not the caller.
TokenICRC2_mint_checks_recipient(t, caller, to, amount) ==
    IF to \notin t.minters
    THEN Outcome(t, ErrNotAuthorized)
    ELSE MintOutcomes(t, caller, to, amount)

TokenICRC2_mint(t, caller, to, amount) ==
    IF caller \notin t.minters
    THEN Outcome(t, ErrNotAuthorized)
    ELSE MintOutcomes(t, caller, to, amount)

---------------------------------------------------------------------------
(* The canister: the cell TOKEN_ICRC2 and its query and update methods.    *)
(* A query is a function of the value of the cell.                         *)

query_balance_of(cell, user) ==
    IF IsSome(cell) THEN TokenICRC2_balance_of(Unwrap(cell), user) ELSE 0

query_total_supply(cell) == IF IsSome(cell) THEN Unwrap(cell).total_supply ELSE 0

query_symbol(cell) == IF IsSome(cell) THEN Unwrap(cell).symbol ELSE ""

query_name(cell) == IF IsSome(cell) THEN Unwrap(cell).name ELSE ""

query_decimals(cell) == IF IsSome(cell) THEN Unwrap(cell).decimals ELSE 0

query_allowance(cell, owner, spender) ==
    IF IsSome(cell) THEN TokenICRC2_allowance(Unwrap(cell), owner, spender) ELSE 0

query_burnt_cycles(cell) == IF IsSome(cell) THEN Unwrap(cell).burnt_cycles ELSE 0

query_get_transaction_history(cell) ==
    IF IsSome(cell) THEN Unwrap(cell).transaction_history ELSE <<>>

Call(op, caller, principal, amount) ==
    [op |-> op, caller |-> caller, principal |-> principal, amount |-> amount]

\* No update call has been received yet.
NoCall == Call("install", "-", "-", 0)

\* The method ran on the ledger: its outcome is stored and returned.
Reply(o) ==
    /\ token' = Some(o.token)
    /\ result' = o.result
    /\ UNCHANGED overflow_checks

\* The else branch of the update methods that return a Result.
NotInitialized ==
    /\ token' = token
    /\ result' = ErrNotInitialized
    /\ UNCHANGED overflow_checks

Init ==
    /\ token = None
    /\ pre = None
    /\ call = NoCall
    /\ result = Unit
    /\ overflow_checks \in BOOLEAN

\* Mutant: init_token keeps a ledger that already exists.
init_token_once(caller, symbol, name, total_supply, decimals) ==
    /\ pre' = token
    /\ call' = Call("init_token", caller, caller, total_supply)
    /\ token' = IF IsSome(token)
                THEN token
                ELSE Some(TokenICRC2_new(caller, total_supply, decimals, name, symbol))
    /\ result' = Unit
    /\ UNCHANGED overflow_checks

init_token(caller, symbol, name, total_supply, decimals) ==
    /\ pre' = token
    /\ call' = Call("init_token", caller, caller, total_supply)
    /\ token' = Some(TokenICRC2_new(caller, total_supply, decimals, name, symbol))
    /\ result' = Unit
    /\ UNCHANGED overflow_checks

add_minter(caller, minter) ==
    /\ pre' = token
    /\ call' = Call("add_minter", caller, minter, 0)
    /\ IF IsSome(token)
       THEN Reply(TokenICRC2_add_minter(Unwrap(token), caller, minter))
       ELSE NotInitialized

mint(caller, to, amount) ==
    /\ pre' = token
    /\ call' = Call("mint", caller, to, amount)
    /\ IF IsSome(token)
       THEN Reply(TokenICRC2_mint(Unwrap(token), caller, to, amount))
       ELSE NotInitialized

\* Mutant: approve reports success when there is no ledger.
approve_without_ledger(caller, spender, amount) ==
    /\ pre' = token
    /\ call' = Call("approve", caller, spender, amount)
    /\ IF IsSome(token)
       THEN Reply(TokenICRC2_approve(Unwrap(token), caller, spender, amount))
       ELSE /\ token' = token
            /\ result' = Ok
            /\ UNCHANGED overflow_checks

approve(caller, spender, amount) ==
    /\ pre' = token
    /\ call' = Call("approve", caller, spender, amount)
    /\ IF IsSome(token)
       THEN Reply(TokenICRC2_approve(Unwrap(token), caller, spender, amount))
       ELSE NotInitialized

transfer(caller, to, amount) ==
    /\ pre' = token
    /\ call' = Call("transfer", caller, to, amount)
    /\ IF IsSome(token)
       THEN Reply(TokenICRC2_transfer(Unwrap(token), caller, to, amount))
       ELSE NotInitialized

burn_cycles(caller, cycles) ==
    /\ pre' = token
    /\ call' = Call("burn_cycles", caller, caller, cycles)
    /\ IF IsSome(token)
       THEN Reply(TokenICRC2_burn_cycles(Unwrap(token), cycles))
       ELSE /\ token' = token
            /\ result' = Unit
            /\ UNCHANGED overflow_checks

---------------------------------------------------------------------------
(* The environment: which calls arrive.                                    *)

\* The bounds of the exploration: the history holds at most n records, and
\* burn_cycles is called while the counter is at most MaxBurnt.
HistoryWithin(opt, n) == IsSome(opt) => Len(Unwrap(opt).transaction_history) <= n

BurntWithin(opt) == IsSome(opt) => Unwrap(opt).burnt_cycles <= MaxBurnt

\* One update call, with the caller and the arguments drawn from the sets of I.
NextOn(I) ==
    \/ \E caller \in I.init_callers, symbol \in Symbols, name \in Names,
          total_supply \in I.supplies, decimals \in Decimals :
            init_token(caller, symbol, name, total_supply, decimals)
    \/ \E caller \in I.callers, minter \in I.targets : add_minter(caller, minter)
    \/ \E caller \in I.callers, to \in I.targets, amount \in I.amounts :
            /\ mint(caller, to, amount)
            /\ HistoryWithin(token', I.max_history)
    \/ \E caller \in I.approve_callers, spender \in I.approve_spenders,
          amount \in I.approve_amounts :
            approve(caller, spender, amount)
    \/ \E caller \in I.callers, to \in I.targets, amount \in I.amounts :
            /\ transfer(caller, to, amount)
            /\ HistoryWithin(token', I.max_history)
    \/ \E caller \in I.burn_callers, cycles \in I.burn_amounts :
            /\ BurntWithin(token)
            /\ burn_cycles(caller, cycles)

\* The calls that move value or authority between alice and bob, with each
\* amount of Amounts; one approve call and one burn_cycles call.
LedgerInputs ==
    [init_callers |-> {"alice", "bob"}, supplies |-> Amounts,
     callers |-> {"alice", "bob"}, targets |-> {"alice", "bob"}, amounts |-> Amounts,
     approve_callers |-> {"alice"}, approve_spenders |-> {"bob"}, approve_amounts |-> {1},
     burn_callers |-> {"alice"}, burn_amounts |-> {U64Max},
     max_history |-> MaxHistory]

Next == NextOn(LedgerInputs)

Spec == Init /\ [][Next]_vars

\* The same calls, with room for one more record in the history.
DeepInputs == [LedgerInputs EXCEPT !.max_history = MaxHistory + 1]

NextDeep == NextOn(DeepInputs)

SpecDeep == Init /\ [][NextDeep]_vars

\* The approve calls of alice and bob for the spenders bob and carol, with
\* each amount, on a ledger that alice created; one call of each other
\* method.
AllowanceInputs ==
    [init_callers |-> {"alice"}, supplies |-> {1},
     callers |-> {"alice"}, targets |-> {"bob"}, amounts |-> {1},
     approve_callers |-> {"alice", "bob"}, approve_spenders |-> {"bob", "carol"},
     approve_amounts |-> Amounts,
     burn_callers |-> {"alice"}, burn_amounts |-> {U64Max},
     max_history |-> MaxHistory]

NextAllowance == NextOn(AllowanceInputs)

SpecAllowance == Init /\ [][NextAllowance]_vars

\* The calls of the scenario of C12 and their neighbours, on a ledger of
\* 1000 units that alice created: alice and bob transfer 300 or 500 to bob
\* or carol, alice and bob name dave a minter, dave and carol mint 200 for
\* bob.
NextScenario ==
    \/ \E symbol \in Symbols, name \in Names, decimals \in Decimals :
            init_token("alice", symbol, name, 1000, decimals)
    \/ \E caller \in {"alice", "bob"} : add_minter(caller, "dave")
    \/ \E caller \in {"dave", "carol"} :
            /\ mint(caller, "bob", 200)
            /\ HistoryWithin(token', MaxHistory + 1)
    \/ approve("bob", "carol", 500)
    \/ \E caller \in {"alice", "bob"}, to \in {"bob", "carol"}, amount \in {300, 500} :
            /\ transfer(caller, to, amount)
            /\ HistoryWithin(token', MaxHistory + 1)
    \/ /\ BurntWithin(token)
       /\ burn_cycles("alice", 1)

SpecScenario == Init /\ [][NextScenario]_vars

\* The burn_cycles calls of alice and bob with each amount, on a ledger
\* that alice created; one call of each other method.
CyclesInputs ==
    [init_callers |-> {"alice"}, supplies |-> {1},
     callers |-> {"alice"}, targets |-> {"bob"}, amounts |-> {1},
     approve_callers |-> {"alice"}, approve_spenders |-> {"bob"}, approve_amounts |-> {1},
     burn_callers |-> {"alice", "bob"}, burn_amounts |-> Amounts,
     max_history |-> MaxHistory]

NextCycles == NextOn(CyclesInputs)

SpecCycles == Init /\ [][NextCycles]_vars

---------------------------------------------------------------------------
(* Notation for the claims.                                                *)

RECURSIVE SumOver(_, _)
SumOver(map, keys) ==
    IF keys = {} THEN 0
    ELSE LET k == CHOOSE x \in keys : TRUE
         IN  map[k] + SumOver(map, keys \ {k})

\* The sum of all balances of a ledger.
SumOfBalances(t) == SumOver(t.balances, DOMAIN t.balances)

IsPrefix(s, t) == Len(s) <= Len(t) /\ SubSeq(t, 1, Len(s)) = s

\* The last call was op and found an initialized ledger.
Ran(op) == call.op = op /\ IsSome(pre)

\* The ledger before and after the last call.
Before == Unwrap(pre)

After == Unwrap(token)

---------------------------------------------------------------------------
(* The claims.                                                             *)

\* C1: in every reachable state total_supply equals the sum of all balances.
\* Stated as claimed; a mint that overflows total_supply breaks it.
C1_SupplyIsSumOfBalances ==
    IsSome(token) => After.total_supply = SumOfBalances(After)

\* C2: a transfer of more than the balance of the caller (an identity
\* without a balance entry has balance 0) returns the insufficient-balance
\* error and leaves the whole ledger as it was.
C2_TransferInsufficient ==
    (Ran("transfer") /\ query_balance_of(pre, call.caller) < call.amount)
        => (result = ErrInsufficientBalance /\ token = pre)

\* C2, its case: a refused transfer by an identity that has no balance entry.
C2_Witness ==
    /\ Ran("transfer")
    /\ call.caller \notin DOMAIN Before.balances
    /\ call.amount > 0
    /\ result = ErrInsufficientBalance

\* C3: a transfer of at most the balance of the caller succeeds, moves
\* exactly amount from the caller to the destination (nothing when they are
\* the same identity), changes no other balance nor total_supply, and
\* appends exactly one record.  Stated as claimed; after a mint has wrapped
\* total_supply around, the credit of a transfer can overflow.
C3_TransferSufficient ==
    (Ran("transfer") /\ query_balance_of(pre, call.caller) >= call.amount) =>
        LET from == call.caller
            to == call.principal
            amount == call.amount
        IN  /\ result = Ok
            /\ from # to =>
                  /\ query_balance_of(token, from) = query_balance_of(pre, from) - amount
                  /\ query_balance_of(token, to) = query_balance_of(pre, to) + amount
            /\ from = to => query_balance_of(token, from) = query_balance_of(pre, from)
            /\ \A p \in Principals \ {from, to} :
                  query_balance_of(token, p) = query_balance_of(pre, p)
            /\ query_total_supply(token) = query_total_supply(pre)
            /\ Len(After.transaction_history) = Len(Before.transaction_history) + 1

\* C4: mint called by an identity that is not a minter returns the
\* not-authorized error and leaves the whole ledger as it was.
C4_MintNotAuthorized ==
    (Ran("mint") /\ call.caller \notin Before.minters)
        => (result = ErrNotAuthorized /\ token = pre)

\* C4, its case: a refused mint of a positive amount.
C4_Witness ==
    /\ Ran("mint")
    /\ call.caller \notin Before.minters
    /\ call.amount > 0
    /\ result = ErrNotAuthorized

\* C5: mint called by a minter succeeds, adds exactly amount to the balance
\* of the destination and to total_supply, changes no other balance, and
\* appends one record (caller, to, amount, 0, new balance of to, 0).  Stated
\* as claimed; a mint that overflows either sum breaks it.
C5_MintAuthorized ==
    (Ran("mint") /\ call.caller \in Before.minters) =>
        LET to == call.principal
            amount == call.amount
        IN  /\ result = Ok
            /\ query_balance_of(token, to) = query_balance_of(pre, to) + amount
            /\ query_total_supply(token) = query_total_supply(pre) + amount
            /\ \A p \in Principals \ {to} :
                  query_balance_of(token, p) = query_balance_of(pre, p)
            /\ After.transaction_history =
                  Append(Before.transaction_history,
                         TransactionRecord(call.caller, to, amount, 0,
                                           query_balance_of(token, to), 0, ReasonMint))

\* The identities that are minters after the last call and were not before.
NewMinters ==
    IF IsSome(token)
    THEN After.minters \ (IF IsSome(pre) THEN Before.minters ELSE {})
    ELSE {}

\* C6: add_minter succeeds exactly when the caller is the owner, and then
\* the new minter is in the minter set and nothing else changed; for any
\* other caller it returns the not-owner error and the ledger is as it was.
\* An identity becomes a minter only through a call made by the owner:
\* add_minter by the owner, or the init_token call that made it the owner.
C6_AddMinterOnlyOwner ==
    /\ Ran("add_minter") =>
          IF call.caller = Before.owner
          THEN /\ result = Ok
               /\ After = [Before EXCEPT !.minters = @ \cup {call.principal}]
          ELSE /\ result = ErrNotOwner
               /\ token = pre
    /\ \A m \in NewMinters :
          \/ Ran("add_minter") /\ call.caller = Before.owner /\ call.principal = m
          \/ call.op = "init_token" /\ call.caller = m /\ After.owner = m

\* C6, its case: a minter who is not the owner is refused.
C6_Witness ==
    /\ Ran("add_minter")
    /\ call.caller \in Before.minters
    /\ call.caller # Before.owner
    /\ result = ErrNotOwner

\* C7: approve on an initialized ledger succeeds and sets the allowance of
\* (caller, spender) to exactly amount, whatever it was; the allowance of
\* every other pair is unchanged.
C7_ApproveOverwrites ==
    Ran("approve") =>
        /\ result = Ok
        /\ query_allowance(token, call.caller, call.principal) = call.amount
        /\ \A o \in Principals, sp \in Principals :
              <<o, sp>> # <<call.caller, call.principal>>
                  => query_allowance(token, o, sp) = query_allowance(pre, o, sp)

\* C7, its case: a second approve replaces a different, nonzero allowance
\* while another pair holds an allowance too.
C7_Witness ==
    /\ Ran("approve")
    /\ query_allowance(pre, call.caller, call.principal) \notin {0, call.amount}
    /\ call.amount > 0
    /\ \E o \in Principals, sp \in Principals :
          /\ <<o, sp>> # <<call.caller, call.principal>>
          /\ query_allowance(pre, o, sp) > 0

\* C8: the length of the transaction history grows by exactly 1 on every
\* successful transfer or mint and by 0 on every other call except
\* init_token (refused calls, add_minter, approve, burn_cycles).
C8_HistoryLength ==
    call.op \in {"add_minter", "mint", "approve", "transfer", "burn_cycles"} =>
        Len(query_get_transaction_history(token)) =
            Len(query_get_transaction_history(pre))
                + (IF call.op \in {"transfer", "mint"} /\ result = Ok THEN 1 ELSE 0)

\* C8, its case: a successful transfer made the history one record longer.
C8_Witness ==
    /\ Ran("transfer")
    /\ result = Ok
    /\ Len(After.transaction_history) = Len(Before.transaction_history) + 1

\* C9: in every step, init_token included, the history before the call is
\* a prefix of the history after it.  Stated as claimed; init_token on an
\* initialized ledger replaces the ledger and empties the history.
C9_HistoryAppendOnly ==
    IsPrefix(query_get_transaction_history(pre), query_get_transaction_history(token))

\* Every query returns its zero or empty default.
QueriesDefault(cell) ==
    /\ \A p \in Principals : query_balance_of(cell, p) = 0
    /\ query_total_supply(cell) = 0
    /\ query_symbol(cell) = ""
    /\ query_name(cell) = ""
    /\ query_decimals(cell) = 0
    /\ \A o \in Principals, sp \in Principals : query_allowance(cell, o, sp) = 0
    /\ query_burnt_cycles(cell) = 0
    /\ query_get_transaction_history(cell) = <<>>

\* C10 as claimed: before init_token has run every query returns its
\* default, and add_minter, mint, approve, transfer and burn_cycles fail
\* with the not-initialized error and leave the ledger uninitialized.
C10_UninitializedAllFail ==
    /\ ~IsSome(token) => QueriesDefault(token)
    /\ (~IsSome(pre)
          /\ call.op \in {"add_minter", "mint", "approve", "transfer", "burn_cycles"})
        => (result = ErrNotInitialized /\ token = None)

\* C10 as amended: before init_token has run every query returns its
\* default; add_minter, mint, approve and transfer fail with the
\* not-initialized error; burn_cycles returns nothing and reports no error;
\* all five leave the ledger uninitialized.
C10_Uninitialized ==
    /\ ~IsSome(token) => QueriesDefault(token)
    /\ (~IsSome(pre) /\ call.op \in {"add_minter", "mint", "approve", "transfer"})
        => (result = ErrNotInitialized /\ token = None)
    /\ (~IsSome(pre) /\ call.op = "burn_cycles")
        => (result = Unit /\ token = None)

\* C10, its case: burn_cycles of a positive amount before init_token.
C10_Witness ==
    /\ ~IsSome(pre)
    /\ call.op = "burn_cycles"
    /\ call.amount > 0
    /\ result = Unit
    /\ ~IsSome(token)

\* C11: no call ends in an uncaught fault, and a mint or a burn_cycles whose
\* amount would push total_supply, the balance of the destination or
\* burnt_cycles past U64Max neither aborts nor changes the ledger.  Stated
\* as claimed; the sums of lines 128, 148 and 149 are unchecked additions.
C11_NoFaultNoWrap ==
    /\ result # Trap
    /\ (Ran("mint") /\ call.caller \in Before.minters
          /\ (\/ Overflows(query_balance_of(pre, call.principal), call.amount)
              \/ Overflows(Before.total_supply, call.amount)))
        => token = pre
    /\ (Ran("burn_cycles") /\ Overflows(Before.burnt_cycles, call.amount))
        => token = pre

\* The ledger of the scenario after its first transfer: alice, the owner,
\* holds 700 of the 1000 units, bob holds 300, carol holds nothing and the
\* history has one record.
ScenarioAfterTransfer(cell) ==
    /\ IsSome(cell)
    /\ Unwrap(cell).owner = "alice"
    /\ query_total_supply(cell) = 1000
    /\ query_balance_of(cell, "alice") = 700
    /\ query_balance_of(cell, "bob") = 300
    /\ query_balance_of(cell, "carol") = 0
    /\ Len(query_get_transaction_history(cell)) = 1

\* C12: the scenario, step by step.  After init_token by alice with supply
\* 1000 alice holds 1000; her transfer of 300 to bob succeeds and gives
\* 700 / 300 and one record; bob's transfer of 500 to carol is then refused
\* for insufficient balance and changes nothing; add_minter(dave) by alice
\* succeeds; mint(bob, 200) by dave succeeds and gives total_supply 1200,
\* balance of bob 500 and two records.
C12_Scenario ==
    /\ (call.op = "init_token" /\ call.caller = "alice" /\ call.amount = 1000)
        => query_balance_of(token, "alice") = 1000
    /\ (Ran("transfer") /\ call = Call("transfer", "alice", "bob", 300)
          /\ Before = TokenICRC2_new("alice", 1000, Before.decimals, Before.name, Before.symbol))
        => (result = Ok /\ ScenarioAfterTransfer(token))
    /\ (Ran("transfer") /\ call = Call("transfer", "bob", "carol", 500)
          /\ ScenarioAfterTransfer(pre))
        => (result = ErrInsufficientBalance /\ ScenarioAfterTransfer(token)
              /\ After.balances = Before.balances)
    /\ (Ran("add_minter") /\ call = Call("add_minter", "alice", "dave", 0)
          /\ ScenarioAfterTransfer(pre))
        => (result = Ok /\ "dave" \in After.minters /\ ScenarioAfterTransfer(token))
    /\ (Ran("mint") /\ call = Call("mint", "dave", "bob", 200)
          /\ ScenarioAfterTransfer(pre) /\ "dave" \in Before.minters)
        => /\ result = Ok
           /\ query_total_supply(token) = 1200
           /\ query_balance_of(token, "bob") = 500
           /\ Len(query_get_transaction_history(token)) = 2

\* C12, its case: the last step of the scenario, the mint by dave after the
\* transfer of 300 from alice to bob.
C12_Witness ==
    /\ Ran("mint")
    /\ call = Call("mint", "dave", "bob", 200)
    /\ ScenarioAfterTransfer(pre)
    /\ Before.transaction_history[1].from = "alice"
    /\ Before.transaction_history[1].to = "bob"
    /\ Before.transaction_history[1].amount = 300
    /\ Before.minters = {"alice", "dave"}
    /\ result = Ok
    /\ Len(After.transaction_history) = 2

\* C13: once the ledger is initialized no call, init_token included, changes
\* its owner.  Stated as claimed; init_token on an initialized ledger makes
\* its caller the owner.
C13_OwnerImmutable ==
    (IsSome(pre) /\ IsSome(token)) => After.owner = Before.owner

\* C14: in every initialized state the owner is a minter, and add_minter,
\* mint, approve, transfer and burn_cycles remove no minter; hence the owner
\* is never refused by add_minter and never refused as unauthorized by mint.
C14_OwnerIsMinter ==
    /\ IsSome(token) => After.owner \in After.minters
    /\ (IsSome(pre)
          /\ call.op \in {"add_minter", "mint", "approve", "transfer", "burn_cycles"})
        => Before.minters \subseteq After.minters
    /\ (Ran("add_minter") /\ call.caller = Before.owner) => result = Ok
    /\ (Ran("mint") /\ call.caller = Before.owner) => result # ErrNotAuthorized

\* C14, its case: the owner mints after another identity became a minter.
C14_Witness ==
    /\ Ran("mint")
    /\ call.caller = Before.owner
    /\ Before.minters # {Before.owner}
    /\ result = Ok
    /\ After.minters = Before.minters

\* C15: burn_cycles on an initialized ledger adds exactly its amount to
\* burnt_cycles and changes nothing else; add_minter, mint, approve and
\* transfer leave burnt_cycles as it was.  Stated as claimed; the sum of
\* line 128 is an unchecked addition.
C15_BurnCyclesExact ==
    /\ Ran("burn_cycles")
        => After = [Before EXCEPT !.burnt_cycles = @ + call.amount]
    /\ (IsSome(pre) /\ call.op \in {"add_minter", "mint", "approve", "transfer"})
        => /\ After.burnt_cycles = Before.burnt_cycles
           /\ query_burnt_cycles(pre) <= query_burnt_cycles(token)

\* C16: over add_minter, mint, approve, transfer and burn_cycles the balance
\* of an identity decreases only in a successful transfer that this identity
\* called.  Stated as claimed; a mint whose sum overflows wraps the balance
\* of its destination around.
C16_DebitOnlyByCaller ==
    (IsSome(pre)
        /\ call.op \in {"add_minter", "mint", "approve", "transfer", "burn_cycles"})
        => \A x \in Principals :
              query_balance_of(token, x) < query_balance_of(pre, x)
                  => (call.op = "transfer" /\ result = Ok /\ call.caller = x)

\* The last record of the history of a ledger.
LastRecord(t) == t.transaction_history[Len(t.transaction_history)]

C18_InitTokenFresh ==
    call.op = "init_token" =>
        /\ result = Unit
        /\ IsSome(token)
        /\ After.owner = call.caller
        /\ DOMAIN After.balances = {call.caller}
        /\ \A p \in Principals :
              query_balance_of(token, p) = (IF p = call.caller THEN call.amount ELSE 0)
        /\ query_total_supply(token) = call.amount
        /\ After.minters = {call.caller}
        /\ After.allowances = EmptyMap
        /\ \A o \in Principals, sp \in Principals : query_allowance(token, o, sp) = 0
        /\ query_burnt_cycles(token) = 0
        /\ query_get_transaction_history(token) = <<>>

\* C18, its case: init_token by an identity that is not the owner, on a
\* ledger with a second minter, an allowance, burnt cycles and a record.
C18_Witness ==
    /\ call.op = "init_token"
    /\ IsSome(pre)
    /\ Before.owner # call.caller
    /\ Before.minters # {Before.owner}
    /\ Before.allowances # EmptyMap
    /\ Before.burnt_cycles > 0
    /\ Before.transaction_history # <<>>
    /\ query_balance_of(pre, Before.owner) > 0
    /\ After.owner = call.caller

\* A ledger with its allowances erased.
WithoutAllowances(t) == [t EXCEPT !.allowances = EmptyMap]

\* C19: allowances are inert.  add_minter, mint, transfer and burn_cycles
\* change no allowance; approve changes the allowance of (caller, spender)
\* only, and nothing but allowances; transfer and mint reply and act on the
\* rest of the ledger as they would with no allowance granted at all.
C19_AllowancesInert ==
    /\ (IsSome(pre) /\ call.op \in {"add_minter", "mint", "transfer", "burn_cycles"})
        => /\ After.allowances = Before.allowances
           /\ \A o \in Principals, sp \in Principals :
                 query_allowance(token, o, sp) = query_allowance(pre, o, sp)
    /\ Ran("approve")
        => /\ \A o \in Principals, sp \in Principals :
                 query_allowance(token, o, sp) # query_allowance(pre, o, sp)
                     => (o = call.caller /\ sp = call.principal)
           /\ WithoutAllowances(After) = WithoutAllowances(Before)
    /\ Ran("transfer")
        => LET o == TokenICRC2_transfer(WithoutAllowances(Before),
                                        call.caller, call.principal, call.amount)
           IN  /\ result = o.result
               /\ WithoutAllowances(After) = o.token
    /\ Ran("mint")
        => LET o == TokenICRC2_mint(WithoutAllowances(Before),
                                    call.caller, call.principal, call.amount)
           IN  /\ result = o.result
               /\ WithoutAllowances(After) = o.token

\* C19, its case: a successful transfer of a positive amount to an identity
\* that holds an allowance granted by the caller.
C19_Witness ==
    /\ Ran("transfer")
    /\ result = Ok
    /\ call.amount > 0
    /\ query_allowance(pre, call.caller, call.principal) > 0
    /\ query_allowance(token, call.caller, call.principal)
          = query_allowance(pre, call.caller, call.principal)

\* The record was appended by mint.
IsMintRecord(r) == r.reason = ReasonMint

\* The record tells a balance of x: x is its destination, or the source of
\* a transfer.
Concerns(r, x) == r.to = x \/ (r.from = x /\ ~IsMintRecord(r))

\* The balance of x that the record tells.
RecordedBalance(r, x) == IF r.to = x THEN r.post_balance_to ELSE r.post_balance_from

RECURSIVE MintedAmount(_)
\* The sum of the amounts of the mint records of a history.
MintedAmount(h) ==
    IF h = <<>> THEN 0
    ELSE (IF IsMintRecord(Head(h)) THEN Head(h).amount ELSE 0) + MintedAmount(Tail(h))

\* For every identity that some record concerns, the most recent such
\* record tells its current balance.
AuditBalances ==
    IsSome(token) =>
        \A x \in Principals :
            LET h == After.transaction_history
                is == {i \in 1 .. Len(h) : Concerns(h[i], x)}
            IN  is # {} =>
                    LET last == CHOOSE i \in is : \A j \in is : j <= i
                    IN  RecordedBalance(h[last], x) = query_balance_of(token, x)

\* total_supply less the minted amounts is the supply given to init_token:
\* it is that supply right after init_token, and no other call changes it.
AuditSupply ==
    /\ call.op = "init_token"
        => query_total_supply(token) - MintedAmount(After.transaction_history)
              = call.amount
    /\ (IsSome(pre) /\ call.op # "init_token")
        => query_total_supply(token) - MintedAmount(After.transaction_history)
              = query_total_supply(pre) - MintedAmount(Before.transaction_history)

\* C20: the history is consistent with the live ledger: the most recent
\* record that concerns an identity tells its current balance, and
\* total_supply is the supply of the last init_token plus the amounts of all
\* mint records.  Stated as claimed; a mint that overflows total_supply
\* breaks the second part.
C20_AuditTrail == AuditBalances /\ AuditSupply

====
